---- MODULE Spec2Model ----
(***************************************************************************)
(* Model of the CSV upload pipeline of kana-insights-ai (server source:    *)
(* src/unnamed/part_002): the streaming CSV ingestor (parser 'data',        *)
(* 'end', 'error' handlers), the batched classifier analyzeBatch with its   *)
(* rate-limit retries, the bulk insert into the reviews table, and the       *)
(* endpoints that read and clear it (GET /api/data, /api/topics,            *)
(* /api/trends, DELETE /api/data).                                          *)
(*                                                                         *)
(* JavaScript values that come from outside (CSV cells, fields of the       *)
(* model's JSON reply) are records [t, s, n]: t is the typeof tag, s the    *)
(* text of a string, n the value of a number.  Scores are counted in        *)
(* tenths: 5 stands for 0.5, 10 for 1.0, 17 for 1.7.                        *)
(***************************************************************************)
EXTENDS Integers, Sequences, FiniteSets, TLC

\* ------------------------------------------------------------------ bounds
\* longest CSV file with free row contents
MaxRows == 2
\* longest JSON array the external model replies with
MaxArr == 2
\* number of upload requests in one behaviour (they may overlap)
MaxUploads == 2
\* rows of the long CSV file beyond one full batch
MaxExtra == 1
\* inserts that throw in one transaction
MaxFail == 1

\* --------------------------------------------------------- program constants
BATCH_SIZE == 15
MAX_RETRIES == 3
RATE_LIMIT_STATUS == 429
\* 0.5 in tenths: the score of a fallback result
DEFAULT_SCORE == 5
\* 0 in tenths: the score used when no API key is configured, and of (score || 0)
NO_KEY_SCORE == 0
HTTP_OK == 200
HTTP_BAD_REQUEST == 400
HTTP_SERVER_ERROR == 500
\* await sleep(12000) between two batches
BATCH_DELAY_MS == 12000
\* the wait before the first retry after a 429: Math.pow(2, 0) * 15000
BACKOFF_BASE_MS == 15000

\* ------------------------------------------------------- JavaScript values
Str(x) == [t |-> "string", s |-> x, n |-> 0]
Num(x) == [t |-> "number", s |-> "", n |-> x]
Undefined == [t |-> "undefined", s |-> "", n |-> 0]

\* JavaScript truthiness of a string, number or undefined value
Truthy(v) ==
  CASE v.t = "string" -> v.s # ""
    [] v.t = "number" -> v.n # 0
    [] OTHER -> FALSE

\* String.prototype.trim on the strings the model's reply may carry
Trim(x) ==
  CASE x = " " -> ""
    [] x = " Service " -> "Service"
    [] OTHER -> x

\* the template string csv-row-${rowCount}
CsvRowId(k) == "csv-row-" \o ToString(k)

\* index of the first element of seq whose mentionId is id, 0 when there is
\* none (Array.prototype.find with the predicate x => x.mentionId === id)
FindIndex(seq, id) ==
  LET hits == {j \in 1..Len(seq) : seq[j].mentionId = id} IN
    IF hits = {} THEN 0 ELSE CHOOSE j \in hits : \A h \in hits : j <= h

\* ------------------------------------------------------------ analyzeBatch
Sentiments == {"positive", "neutral", "negative"}
Taxonomy == {"Quality", "Service", "Price", "Ambiance", "Location", "General"}

\* mutant: any string is taken as a sentiment
normalizeSentimentLoose(value) == IF value.t = "string" THEN value.s ELSE "neutral"

normalizeSentiment(value) ==
  IF value.t = "string" /\ value.s \in Sentiments THEN value.s ELSE "neutral"

\* mutant: the fallback carries the score of the no-key result
FallbackZeroScore(m) ==
  [mentionId |-> m.id, sentiment |-> "neutral", score |-> 0, entity |-> "General"]

\* the whole-batch fallback of the parse failure and of the catch block
Fallback(m) ==
  [mentionId |-> m.id, sentiment |-> "neutral", score |-> DEFAULT_SCORE, entity |-> "General"]

\* mutant: without a key every mention is given sentiment positive
NoKeyResultPositive(m) ==
  [mentionId |-> m.id, sentiment |-> "positive", score |-> NO_KEY_SCORE, entity |-> "General"]

\* the result given to every mention when GEMINI_API_KEY is not set
NoKeyResult(m) ==
  [mentionId |-> m.id, sentiment |-> "neutral", score |-> NO_KEY_SCORE, entity |-> "General"]

CoerceScore(found) == IF found.score.t = "number" THEN found.score.n ELSE DEFAULT_SCORE

CoerceEntity(found) ==
  IF found.entity.t = "string" /\ Trim(found.entity.s) # "" THEN found.entity.s ELSE "General"

\* found.mentionId || mention.id
CoerceMentionId(found, mention) ==
  IF Truthy(found.mentionId) THEN found.mentionId.s ELSE mention.id

\* one element of results: mentions.map((mention) => { parsed.find ... })
ReconcileOne(parsed, mention) ==
  LET j == FindIndex(parsed, Str(mention.id)) IN
    IF j = 0 THEN Fallback(mention)
    ELSE [mentionId |-> CoerceMentionId(parsed[j], mention),
          sentiment |-> normalizeSentiment(parsed[j].sentiment),
          score |-> CoerceScore(parsed[j]),
          entity |-> CoerceEntity(parsed[j])]

\* mutant: the reply's array is mapped instead of the batch
ReconcileTrustReply(parsed, mentions) ==
  [k \in 1..Len(parsed) |->
     [mentionId |-> parsed[k].mentionId.s,
      sentiment |-> normalizeSentiment(parsed[k].sentiment),
      score |-> CoerceScore(parsed[k]),
      entity |-> CoerceEntity(parsed[k])]]

Reconcile(parsed, mentions) ==
  [k \in 1..Len(mentions) |-> ReconcileOne(parsed, mentions[k])]

FallbackAll(mentions) == [k \in 1..Len(mentions) |-> Fallback(mentions[k])]
NoKeyAll(mentions) == [k \in 1..Len(mentions) |-> NoKeyResult(mentions[k])]

\* --------------------------------------------- the external model's outcomes
\* the field values the probes below put into an element of the reply
BaseElem(id) ==
  [isNull |-> FALSE, mentionId |-> Str(id), sentiment |-> Str("positive"),
   score |-> Num(8), entity |-> Str("Quality")]

SentimentProbes == {Str("negative"), Str("mixed"), Undefined}
ScoreProbes == {Num(0), Num(17), Num(-3), Str("0.9"), Undefined}
EntityProbes == {Str("Food"), Str(" Service "), Str(" "), Undefined}

\* elements addressed to mention id: one valid element and that element with
\* one field replaced by each probe
ElemsFor(id) ==
  {BaseElem(id)}
    \cup {[BaseElem(id) EXCEPT !.sentiment = v] : v \in SentimentProbes}
    \cup {[BaseElem(id) EXCEPT !.score = v] : v \in ScoreProbes}
    \cup {[BaseElem(id) EXCEPT !.entity = v] : v \in EntityProbes}

UnknownId == "csv-row-0"
NullElem == [BaseElem(UnknownId) EXCEPT !.isNull = TRUE, !.mentionId = Undefined]

\* what the reply's array may contain for a batch: every probe for its first
\* mention, a valid element for its last mention, an element for an id that
\* is not in the batch, and a null
Elems(mentions) ==
  ElemsFor(mentions[1].id)
    \cup {BaseElem(mentions[Len(mentions)].id), BaseElem(UnknownId), NullElem}

Arrays(mentions) == UNION {[1..n -> Elems(mentions)] : n \in 0..MaxArr}

\* the reply text as tokens: a JSON body, possibly inside Markdown fences
FENCE_JSON == "<fence json>"
FENCE == "<fence>"
BODY == "<body>"
Texts == {<<BODY>>, <<FENCE_JSON, BODY, FENCE>>}

\* outcomes of model.generateContent(prompt) followed by result.response.text()
Thrown(status) == [kind |-> "throw", status |-> status, text |-> <<>>,
                   json |-> "invalid", arr |-> <<>>]
Reply(text, json, arr) == [kind |-> "text", status |-> 0, text |-> text,
                           json |-> json, arr |-> arr]

Outcomes(mentions) ==
  {Thrown(RATE_LIMIT_STATUS), Thrown(HTTP_SERVER_ERROR), Thrown(0)}
    \cup {Reply(t, j, <<>>) : t \in Texts, j \in {"invalid", "object", "array"}}
    \cup {Reply(<<BODY>>, "array", a) : a \in Arrays(mentions)}
    \cup {Reply(<<FENCE_JSON, BODY, FENCE>>, "array", <<BaseElem(mentions[1].id)>>)}

\* a reply whose fields are all outside their domains
BadElem(id) ==
  [BaseElem(id) EXCEPT !.sentiment = Str("mixed"), !.score = Num(17), !.entity = Str("Food")]

\* a reply that carries the mentionId and nothing else
MissingElem(id) ==
  [BaseElem(id) EXCEPT !.sentiment = Undefined, !.score = Undefined, !.entity = Undefined]

\* a narrower set of outcomes: the two error classes, an unparseable text and
\* arrays with at most one element, for the first mention of the batch
PlainOutcomes(mentions) ==
  {Thrown(RATE_LIMIT_STATUS), Thrown(HTTP_SERVER_ERROR), Reply(<<BODY>>, "invalid", <<>>),
   Reply(<<BODY>>, "array", <<>>)}
    \cup {Reply(<<FENCE_JSON, BODY, FENCE>>, "array", <<e>>) :
            e \in {BaseElem(mentions[1].id), BadElem(mentions[1].id),
                   MissingElem(mentions[1].id)}}

\* text.replace(/<fence>json\n?|<fence>\n?/g, '').trim(), <fence> being three backquotes
StripFences(text) == SelectSeq(text, LAMBDA tok : tok \notin {FENCE_JSON, FENCE})

\* JSON.parse(cleanText) succeeds and Array.isArray(parsed)
ParsesAsArray(o) == StripFences(o.text) = <<BODY>> /\ o.json = "array"

\* p.mentionId on a null element throws a TypeError inside parsed.find, which
\* stops at the first match
FindThrows(parsed, mention) ==
  \E j \in 1..Len(parsed) :
    /\ parsed[j].isNull
    /\ \A h \in 1..(j - 1) : parsed[h].mentionId # Str(mention.id)

ReconcileThrows(parsed, mentions) ==
  \E k \in 1..Len(mentions) : FindThrows(parsed, mentions[k])

\* mutant: every error is retried, whatever its status
ShouldRetryAnyError(o, retryCount) == o.kind = "throw" /\ retryCount < MAX_RETRIES

\* error?.status === 429 && retryCount < 3
ShouldRetry(o, retryCount) ==
  o.kind = "throw" /\ o.status = RATE_LIMIT_STATUS /\ retryCount < MAX_RETRIES

\* mutant: a reply that does not parse as an array yields no result at all
BatchResultDropsUnparsed(o, mentions) ==
  IF o.kind = "throw" THEN FallbackAll(mentions)
  ELSE IF ~ParsesAsArray(o) THEN <<>>
  ELSE IF ReconcileThrows(o.arr, mentions) THEN FallbackAll(mentions)
  ELSE Reconcile(o.arr, mentions)

\* the value analyzeBatch returns for an outcome that is not retried
BatchResult(o, mentions) ==
  IF o.kind = "throw" THEN FallbackAll(mentions)
  ELSE IF ~ParsesAsArray(o) THEN FallbackAll(mentions)
  ELSE IF ReconcileThrows(o.arr, mentions) THEN FallbackAll(mentions)
  ELSE Reconcile(o.arr, mentions)

\* ------------------------------------------------------------- CSV rows
\* A RawRow maps the column names of the header to the cell's text.  A cell
\* is either empty or holds a text that names its column.
ContentColumns == {"content", "text", "Review", "review", "comment", "caption"}
CellText(c) == "v-" \o c

AllRows ==
  UNION {{[c \in D |-> IF c \in E THEN "" ELSE CellText(c)] : E \in SUBSET D} :
           D \in SUBSET ContentColumns}

GoodRow == [c \in {"content"} |-> CellText(c)]
EmptyRow == [c \in {"content"} |-> ""]

SmallFiles == UNION {[1..n -> {GoodRow, EmptyRow}] : n \in 0..MaxRows}
LongFiles == {[k \in 1..n |-> GoodRow] : n \in (BATCH_SIZE + 1)..(BATCH_SIZE + MaxExtra)}
Files == SmallFiles \cup LongFiles
OneRowFiles == {<<r>> : r \in AllRows}

\* row.<name>: undefined when the row has no such column
Cell(row, name) == IF name \in DOMAIN row THEN Str(row[name]) ELSE Undefined

\* a || b || ... : the first truthy operand, else the last operand
RECURSIVE OrChain(_)
OrChain(vals) ==
  IF Len(vals) = 1 \/ Truthy(Head(vals)) THEN Head(vals) ELSE OrChain(Tail(vals))

\* mutant: text is looked up before content
ContentAliasesTextFirst == <<"text", "content", "Review", "comment", "caption">>

ContentAliases == <<"content", "text", "Review", "comment", "caption">>

\* row.content || row.text || row.Review || row.comment || row.caption || ''
RowContent(row) ==
  OrChain([k \in 1..Len(ContentAliases) |-> Cell(row, ContentAliases[k])] \o <<Str("")>>)

\* (req.query.platform as string) || 'CSV'
PlatformOf(q) == IF Truthy(q) THEN q.s ELSE "CSV"
PlatformParams == {Undefined, Str("Google Review")}

\* ----------------------------------------------------------- text and dates
\* Dates and timestamps are texts the code cuts and compares, so they are
\* sequences of one-character strings.  Ascii gives the code of each
\* character that occurs, for the byte order SQLite compares TEXT by.
Ascii ==
  (" " :> 32) @@ ("," :> 44) @@ ("-" :> 45) @@ ("." :> 46) @@ ("/" :> 47) @@
  ("0" :> 48) @@ ("1" :> 49) @@ ("2" :> 50) @@ ("3" :> 51) @@ ("4" :> 52) @@
  ("5" :> 53) @@ ("6" :> 54) @@ ("7" :> 55) @@ ("8" :> 56) @@ ("9" :> 57) @@
  (":" :> 58) @@ ("S" :> 83) @@ ("T" :> 84) @@ ("Z" :> 90) @@ ("e" :> 101) @@
  ("p" :> 112)

Digits == <<"0", "1", "2", "3", "4", "5", "6", "7", "8", "9">>
IsDigit(c) == \E k \in 1..10 : Digits[k] = c
DigitValue(c) == (CHOOSE k \in 1..10 : Digits[k] = c) - 1

\* a < b in the byte order of TEXT (memcmp, the shorter text first on a tie)
RECURSIVE TextLess(_, _)
TextLess(a, b) ==
  CASE b = <<>> -> FALSE
    [] a = <<>> -> TRUE
    [] Ascii[Head(a)] # Ascii[Head(b)] -> Ascii[Head(a)] < Ascii[Head(b)]
    [] OTHER -> TextLess(Tail(a), Tail(b))

TextLeq(a, b) == a = b \/ TextLess(a, b)

\* text.split(sep)[0]: the text before the first occurrence of sep
SplitFirst(text, sep) ==
  LET at == {k \in 1..Len(text) : text[k] = sep} IN
    IF at = {} THEN text
    ELSE SubSeq(text, 1, (CHOOSE k \in at : \A h \in at : k <= h) - 1)

\* normalizedDate.match(/^\d{4}-\d{2}-\d{2}/)
MatchesDatePrefix(text) ==
  /\ Len(text) >= 10
  /\ \A k \in {1, 2, 3, 4, 6, 7, 9, 10} : IsDigit(text[k])
  /\ text[5] = "-" /\ text[8] = "-"

\* String(rawDate).split('T')[0].split(' ')[0], cut to 10 characters when it
\* starts like a date
NormalizeDate(rawDate) ==
  LET cut == SplitFirst(SplitFirst(rawDate, "T"), " ") IN
    IF MatchesDatePrefix(cut) THEN SubSeq(cut, 1, 10) ELSE cut

\* const dateKeys
DateKeys ==
  {"date", "publish_date", "created_at", "timestamp", "published_at", "time",
   "created", "published", "tanggal", "waktu"}

\* k.toLowerCase().trim() on the header names that occur
LowerTrim(k) ==
  CASE k = "Date" -> "date"
    [] k = " Tanggal " -> "tanggal"
    [] OTHER -> k

\* Object.keys(row).find(k => dateKeys.includes(k.toLowerCase().trim())) over
\* the columns of the row in file order, 0 when there is none
FoundDateKey(cols) ==
  LET hits == {k \in 1..Len(cols) : LowerTrim(cols[k].name) \in DateKeys} IN
    IF hits = {} THEN 0 ELSE CHOOSE k \in hits : \A h \in hits : k <= h

\* the instants the server's clock shows, as new Date().toISOString() prints them
Clock ==
  <<<<"2", "0", "2", "5", "-", "1", "1", "-", "0", "5", "T", "0", "8", ":", "3", "0", ":", "0", "0", ".", "0", "0", "0", "Z">>,
    <<"2", "0", "2", "5", "-", "1", "1", "-", "2", "5", "T", "1", "7", ":", "4", "5", ":", "1", "0", ".", "0", "0", "0", "Z">>>>

ToISOString(t) == Clock[t]

\* let rawDate = foundDateKey ? row[foundDateKey] : new Date().toISOString()
RawDate(cols, t) ==
  LET k == FoundDateKey(cols) IN IF k = 0 THEN ToISOString(t) ELSE cols[k].value

\* SQLite datetime('now'): YYYY-MM-DD HH:MM:SS in UTC
DatetimeNow(t) == SubSeq(Clock[t], 1, 10) \o <<" ">> \o SubSeq(Clock[t], 12, 19)

\* the values a date column of an uploaded file holds
DateTexts ==
  {<<"2", "0", "2", "5", "-", "0", "9", "-", "1", "5">>,
   <<"2", "0", "2", "5", "-", "0", "9", "-", "1", "5", "T", "1", "0", ":", "0", "0", ":", "0", "0", "Z">>,
   <<"2", "0", "2", "5", "-", "0", "9", "-", "1", "5", " ", "1", "0", ":", "0", "0", ":", "0", "0">>,
   <<"2", "0", "2", "5", "-", "9", "-", "5">>,
   <<"1", "5", "/", "0", "9", "/", "2", "0", "2", "5">>,
   <<"S", "e", "p", " ", "1", "5", ",", " ", "2", "0", "2", "5">>,
   <<>>}

\* the header names of the columns that are no content columns
OtherHeaders == {"date", "Date", " Tanggal ", "posted"}

Column(name, value) == [name |-> name, value |-> value]

\* the columns of a row besides its content columns, in file order: none, one
\* of any name and value, or an unrecognised one before or after a date column
DateColumns ==
  {<<>>}
    \cup {<<Column(h, v)>> : h \in OtherHeaders, v \in DateTexts}
    \cup {<<Column("posted", <<"1", "5", "/", "0", "9", "/", "2", "0", "2", "5">>), Column("date", v)>> : v \in DateTexts}
    \cup {<<Column("Date", v), Column("waktu", <<"2", "0", "2", "5", "-", "0", "9", "-", "1", "5">>)>> : v \in DateTexts}

\* ------------------------------------------------------------------ state
Reqs == 1..MaxUploads

VARIABLES
  apiKey,             \* process.env.GEMINI_API_KEY is set
  db,                 \* the rows of table reviews, in rowid order
  seq,                \* sqlite_sequence.seq of table reviews (AUTOINCREMENT)
  query,              \* per request: req.query.platform
  file,               \* per request: the data rows of the request body
  dates,              \* per request and data row: its columns besides the content columns
  clock,              \* the instant the server's clock shows, an index of Clock
  view,               \* the response to the last query request (see NoView)
  wiped,              \* what the last DELETE /api/data did (see NeverWiped)
  pc,                 \* per request: position of its handlers
  pos,                \* per request: rows the parser has emitted
  rowCount,           \* per request: let rowCount
  mentionsToAnalyze,  \* per request: const mentionsToAnalyze
  i,                  \* per request: loop variable of the batch loop
  retryCount,         \* per request: retryCount of the running analyzeBatch
  analyses,           \* per request: const analyses
  res,                \* per request: the response sent
  calls,              \* per request: calls of model.generateContent made
  prompted,           \* per request: ids of the mentions put into a prompt
  thrown,             \* per request: offsets of the batches whose last call threw
  txn,                \* per request: what its transaction did (see NoTxn)
  delayed,            \* per request: milliseconds spent in sleep(12000) between batches
  log,                \* per request: the calls of model.generateContent that settled (see LogEntry)
  dispatched,         \* per request: the batches passed to analyzeBatch by the loop, in order
  aborted             \* per request: req.on('error') has run

store == <<db, seq>>
input == <<apiKey, query, file, dates>>
readers == <<clock, view, wiped>>
ingest == <<pos, rowCount, mentionsToAnalyze>>
vars == <<apiKey, db, seq, query, file, dates, clock, view, wiped, pc, pos, rowCount, mentionsToAnalyze, i,
          retryCount, analyses, res, calls, prompted, thrown, txn, delayed, log, dispatched, aborted>>

NoResponse == [status |-> 0, count |-> 0]
Response(status, count) == [status |-> status, count |-> count]
headersSent(r) == res[r] # NoResponse

\* a record of the request's transaction: down when db.prepare or the
\* transaction threw, rejected the positions in reviewsToStore whose
\* insert.run threw, rows the rows appended, each with its position
NoTxn == [down |-> FALSE, rejected |-> {}, rows |-> <<>>]

\* no query request was answered yet
NoView == [kind |-> "none", filter |-> Undefined, on |-> <<>>, at |-> 0, body |-> <<>>]

\* no DELETE /api/data succeeded yet; afterwards: done, the uploads that had
\* completed before it (before), and the rows it removed
NeverWiped == [done |-> FALSE, before |-> {}, removed |-> 0]

\* files whose rows have content columns only
NoDates(f) == [r \in Reqs |-> [p \in 1..Len(f[r]) |-> <<>>]]

\* mutant: the label is that of the first request, as if kept in a variable
\* of the module
platformOfFirst(r) == PlatformOf(query[1])

\* const platform = (req.query.platform as string) || 'CSV'
platform(r) == PlatformOf(query[r])

\* ------------------------------------------------------------ SQLite dates
\* a NULL and a TEXT value of a result column
Null == [null |-> TRUE, text |-> <<>>]
Text(x) == [null |-> FALSE, text |-> x]

\* the number a text of digits denotes
RECURSIVE ToNumber(_)
ToNumber(text) ==
  IF text = <<>> THEN 0
  ELSE 10 * ToNumber(SubSeq(text, 1, Len(text) - 1)) + DigitValue(text[Len(text)])

\* the digits of n, padded with zeros to width characters
RECURSIVE Pad(_, _)
Pad(n, width) ==
  IF width = 0 THEN <<>> ELSE Pad(n \div 10, width - 1) \o <<Digits[(n % 10) + 1]>>

\* SQLite reads a TEXT as a date when it is YYYY-MM-DD with a month of 01..12
\* and a day of 01..31; the texts the ingestor stores have no time part
ValidDate(text) ==
  /\ Len(text) = 10 /\ MatchesDatePrefix(text)
  /\ ToNumber(SubSeq(text, 6, 7)) \in 1..12
  /\ ToNumber(SubSeq(text, 9, 10)) \in 1..31

ParseDate(text) ==
  [y |-> ToNumber(SubSeq(text, 1, 4)), m |-> ToNumber(SubSeq(text, 6, 7)),
   d |-> ToNumber(SubSeq(text, 9, 10))]

IsLeap(y) == (y % 4 = 0 /\ y % 100 # 0) \/ y % 400 = 0

DaysIn(y, m) ==
  CASE m = 2 -> IF IsLeap(y) THEN 29 ELSE 28
    [] m \in {4, 6, 9, 11} -> 30
    [] OTHER -> 31

\* a day beyond the end of its month runs over into the next month
Normalized(date) ==
  IF date.d <= DaysIn(date.y, date.m) THEN date
  ELSE IF date.m = 12
       THEN [y |-> date.y + 1, m |-> 1, d |-> date.d - DaysIn(date.y, date.m)]
       ELSE [y |-> date.y, m |-> date.m + 1, d |-> date.d - DaysIn(date.y, date.m)]

\* the modifier '-n months': the month is moved, the day kept, then normalised
MinusMonths(date, n) ==
  LET months == date.y * 12 + (date.m - 1) - n IN
    Normalized([y |-> months \div 12, m |-> (months % 12) + 1, d |-> date.d])

\* strftime('%Y-%m-%d', ...) and strftime('%Y-%m', ...) of a date
FormatYmd(date) == Pad(date.y, 4) \o <<"-">> \o Pad(date.m, 2) \o <<"-">> \o Pad(date.d, 2)
FormatYm(date) == Pad(date.y, 4) \o <<"-">> \o Pad(date.m, 2)

\* 'now' as a date: the UTC date of the clock
Today(t) == ParseDate(SubSeq(Clock[t], 1, 10))

TRENDS_WINDOW_MONTHS == 6
TOPICS_LIMIT == 5

\* strftime('%Y-%m-%d', 'now', '-6 months')
TrendsCutoff(t) == FormatYmd(MinusMonths(Today(t), TRENDS_WINDOW_MONTHS))

\* strftime('%Y-%m', date): NULL when date is no date
MonthOf(text) == IF ValidDate(text) THEN Text(FormatYm(Normalized(ParseDate(text)))) ELSE Null

\* strftime('%Y-%m-%dT%H:%M:%SZ', uploaded_at) of a datetime('now') value
IsoOf(uploaded) == SubSeq(uploaded, 1, 10) \o <<"T">> \o SubSeq(uploaded, 12, 19) \o <<"Z">>

\* NULL sorts before every TEXT
NullableLess(a, b) ==
  IF a.null \/ b.null THEN a.null /\ ~b.null ELSE TextLess(a.text, b.text)

\* ---------------------------------------------------------------- queries
\* COUNT(*) of the rows of table with the sentiment
CountSentiment(table, sentiment) ==
  Cardinality({k \in 1..Len(table) : table[k].sentiment = sentiment})

\* mutant: the uploaded_at of the first row
FirstUploadedAt(table) == table[1].uploaded_at

\* MAX(uploaded_at)
MaxUploadedAt(table) ==
  LET k == CHOOSE k \in 1..Len(table) :
             \A h \in 1..Len(table) : TextLeq(table[h].uploaded_at, table[k].uploaded_at)
  IN table[k].uploaded_at

\* summaryStmt
Summary(table) ==
  [total_positive |-> CountSentiment(table, "positive"),
   total_negative |-> CountSentiment(table, "negative"),
   total_neutral |-> CountSentiment(table, "neutral"),
   last_updated |-> IF Len(table) > 0 THEN Text(IsoOf(MaxUploadedAt(table))) ELSE Null]

\* the orders ORDER BY ... DESC may return the items of S in: items of equal
\* rank come in any order
RECURSIVE DescendingOrders(_)
DescendingOrders(S) ==
  IF S = {} THEN {<<>>}
  ELSE LET top == {x \in S : \A y \in S : y.rank <= x.rank} IN
         UNION {{<<x>> \o rest : rest \in DescendingOrders(S \ {x})} : x \in top}

\* the number of rows of table with an earlier date, in the order of TEXT
DateRank(table, date) == Cardinality({k \in 1..Len(table) : TextLess(table[k].date, date)})

\* mutant: the filter is never applied
FilterAppliesNever(filter) == FALSE

\* ['positive', 'negative', 'neutral'].includes(sentimentFilter)
FilterApplies(filter) ==
  filter.t = "string" /\ filter.s \in {"positive", "negative", "neutral"}

\* the values of req.query.sentiment
FilterParams == {Undefined, Str("positive"), Str("negative"), Str("neutral"), Str("mixed")}

\* SELECT * FROM reviews [WHERE sentiment = ?] ORDER BY date DESC
SelectReviews(table, filter) ==
  LET picked == {k \in 1..Len(table) : FilterApplies(filter) => table[k].sentiment = filter.s}
      items == {[rank |-> DateRank(table, table[k].date), row |-> table[k]] : k \in picked}
  IN {[j \in 1..Len(o) |-> o[j].row] : o \in DescendingOrders(items)}

\* one row of the topics query: GROUP BY entity
TopicOf(table, entity) ==
  LET mine == {k \in 1..Len(table) : table[k].entity = entity} IN
    [entity |-> entity,
     total |-> Cardinality(mine),
     positive |-> Cardinality({k \in mine : table[k].sentiment = "positive"}),
     neutral |-> Cardinality({k \in mine : table[k].sentiment = "neutral"}),
     negative |-> Cardinality({k \in mine : table[k].sentiment = "negative"})]

\* mutant: no LIMIT
LimitNone(rows, n) == rows

\* the first n elements of a sequence: LIMIT n
Limit(rows, n) == SubSeq(rows, 1, IF Len(rows) < n THEN Len(rows) ELSE n)

\* ... GROUP BY entity ORDER BY total DESC LIMIT 5
SelectTopics(table) ==
  LET groups == {TopicOf(table, e) : e \in {table[k].entity : k \in 1..Len(table)}}
      items == {[rank |-> g.total, row |-> g] : g \in groups}
  IN {Limit([j \in 1..Len(o) |-> o[j].row], TOPICS_LIMIT) : o \in DescendingOrders(items)}

\* one row of the trends query: GROUP BY month, over the rows at
TrendOf(table, at, month) ==
  LET mine == {k \in at : MonthOf(table[k].date) = month} IN
    [month |-> month,
     count |-> Cardinality(mine),
     positive |-> Cardinality({k \in mine : table[k].sentiment = "positive"}),
     neutral |-> Cardinality({k \in mine : table[k].sentiment = "neutral"}),
     negative |-> Cardinality({k \in mine : table[k].sentiment = "negative"})]

\* the months in ascending order: ORDER BY month
RECURSIVE AscendingMonths(_)
AscendingMonths(months) ==
  IF months = {} THEN <<>>
  ELSE LET first == CHOOSE m \in months : \A n \in months \ {m} : NullableLess(m, n) IN
         <<first>> \o AscendingMonths(months \ {first})

\* ... WHERE date >= strftime('%Y-%m-%d', 'now', '-6 months') GROUP BY month
\* ORDER BY month
SelectTrends(table, t) ==
  LET at == {k \in 1..Len(table) : TextLeq(TrendsCutoff(t), table[k].date)}
      months == AscendingMonths({MonthOf(table[k].date) : k \in at})
  IN [j \in 1..Len(months) |-> TrendOf(table, at, months[j])]

\* the response a query sends
Answer(kind, filter, body) ==
  [kind |-> kind, filter |-> filter, on |-> db, at |-> clock, body |-> body]

\* ------------------------------------------------------ persistence writer
\* analysis?.sentiment || 'neutral', analysis?.entity || 'General',
\* analysis?.score || 0, with analysis = analyses.find(a => a.mentionId === mention.id)
StoredSentiment(an, j) == IF j # 0 /\ an[j].sentiment # "" THEN an[j].sentiment ELSE "neutral"
StoredEntity(an, j) == IF j # 0 /\ an[j].entity # "" THEN an[j].entity ELSE "General"
StoredScore(an, j) == IF j # 0 /\ an[j].score # 0 THEN an[j].score ELSE NO_KEY_SCORE

ToStore(mention, an) ==
  LET j == FindIndex(an, mention.id) IN
    [platform |-> mention.source, content |-> mention.content, date |-> mention.date,
     sentiment |-> StoredSentiment(an, j), entity |-> StoredEntity(an, j),
     score |-> StoredScore(an, j)]

ReviewsToStore(ms, an) == [k \in 1..Len(ms) |-> ToStore(ms[k], an)]

\* the subsets of S with at most k elements
RECURSIVE SubsetsUpTo(_, _)
SubsetsUpTo(S, k) ==
  IF k = 0 THEN {{}}
  ELSE LET smaller == SubsetsUpTo(S, k - 1) IN
         smaller \cup {T \cup {x} : T \in smaller, x \in S}

\* the sets of items whose insert.run throws in one transaction: at most
\* MaxFail items that the table rejects, or every item when the database
\* file cannot be written (locked, read-only, disk full)
FailSets(n) == SubsetsUpTo(1..n, MaxFail) \cup {1..n}

\* positions of the items that insert.run accepts, in order
Accepted(n, F) == SelectSeq([k \in 1..n |-> k], LAMBDA k : k \notin F)

\* the row insert.run appends for item: AUTOINCREMENT supplies the id and
\* DEFAULT (datetime('now')) the uploaded_at
NewRow(item, id) ==
  [id |-> id, platform |-> item.platform, content |-> item.content, date |-> item.date,
   sentiment |-> item.sentiment, entity |-> item.entity, score |-> item.score,
   uploaded_at |-> DatetimeNow(clock)]

\* mutant: an insert that throws rolls the whole transaction back
InsertedRowsRollBack(items, F, seq0) ==
  IF F # {} THEN <<>>
  ELSE [k \in 1..Len(items) |-> NewRow(items[k], seq0 + k)]

\* the rows the transaction appends when the inserts of the items in F throw
InsertedRows(items, F, seq0) ==
  LET acc == Accepted(Len(items), F) IN
    [k \in 1..(Len(items) - Cardinality(F)) |-> NewRow(items[acc[k]], seq0 + k)]

\* the number in the message of the 200 response: reviewsToStore.length
ReportedCount(items, F) == Len(items)

\* mutant: the success response is sent whatever was sent before
SendOkUnguarded(r, count) == Response(HTTP_OK, count)

\* res.status(200).json(...): throws when a response was already sent, and
\* the catch block then sends nothing
SendOk(r, count) == IF headersSent(r) THEN res[r] ELSE Response(HTTP_OK, count)

\* if (!res.headersSent) res.status(code).json(...)
SendError(r, code) == IF headersSent(r) THEN res[r] ELSE Response(code, 0)

\* mutant: the transaction is recorded whole while only its first row is in
\* the table
FinishTorn(r, an) ==
  \E items \in {ReviewsToStore(mentionsToAnalyze[r], an)} :
    \E rows \in {InsertedRows(items, {}, seq)} :
      /\ pc' = [pc EXCEPT ![r] = "done"]
      /\ db' = db \o SubSeq(rows, 1, 1)
      /\ seq' = seq + Len(rows)
      /\ txn' = [txn EXCEPT ![r] =
                   [down |-> FALSE, rejected |-> {},
                    rows |-> [k \in 1..Len(rows) |-> [idx |-> k, row |-> rows[k]]]]]
      /\ res' = [res EXCEPT ![r] = SendOk(r, Len(items))]

\* from the end of the batch loop to the response; the code has no await here
Finish(r, an) ==
  \E items \in {ReviewsToStore(mentionsToAnalyze[r], an)} :
    /\ pc' = [pc EXCEPT ![r] = "done"]
    /\ \/ \E F \in FailSets(Len(items)) :
          \E rows \in {InsertedRows(items, F, seq)}, acc \in {Accepted(Len(items), F)} :
            /\ db' = db \o rows
            /\ seq' = seq + Len(rows)
            /\ txn' = [txn EXCEPT ![r] =
                         [down |-> FALSE, rejected |-> F,
                          rows |-> [k \in 1..Len(rows) |-> [idx |-> acc[k], row |-> rows[k]]]]]
            /\ res' = [res EXCEPT ![r] = SendOk(r, ReportedCount(items, F))]
       \/ \* db.prepare or the transaction itself throws: the store is unavailable
          /\ UNCHANGED <<db, seq>>
          /\ txn' = [txn EXCEPT ![r] = [NoTxn EXCEPT !.down = TRUE]]
          /\ res' = [res EXCEPT ![r] = SendError(r, HTTP_SERVER_ERROR)]

\* ------------------------------------------------------------- batch loop
Min(a, b) == IF a < b THEN a ELSE b

\* mutant: the slice ends one element early
BatchAtShort(r, i0) ==
  SubSeq(mentionsToAnalyze[r], i0 + 1, Min(i0 + BATCH_SIZE - 1, Len(mentionsToAnalyze[r])))

\* mentionsToAnalyze.slice(i, i + BATCH_SIZE)
BatchAt(r, i0) ==
  SubSeq(mentionsToAnalyze[r], i0 + 1, Min(i0 + BATCH_SIZE, Len(mentionsToAnalyze[r])))

\* mutant: the loop ends after its first iteration
AfterBatchNoLoop(r, i0, batchResults) ==
  /\ analyses' = [analyses EXCEPT ![r] = @ \o batchResults]
  /\ retryCount' = [retryCount EXCEPT ![r] = 0]
  /\ \E an \in {analyses[r] \o batchResults} : Finish(r, an)

\* analyzeBatch has returned batchResults: analyses.push(...batchResults) and
\* what follows up to the next await
AfterBatch(r, i0, batchResults) ==
  /\ analyses' = [analyses EXCEPT ![r] = @ \o batchResults]
  /\ retryCount' = [retryCount EXCEPT ![r] = 0]
  /\ IF i0 + BATCH_SIZE < Len(mentionsToAnalyze[r])
     THEN /\ pc' = [pc EXCEPT ![r] = "delay"]
          /\ UNCHANGED <<db, seq, res, txn>>
     ELSE \E an \in {analyses[r] \o batchResults} : Finish(r, an)

\* const waitTime = Math.pow(2, retryCount) * 15000
BackoffMs(rc) == (2 ^ rc) * BACKOFF_BASE_MS

\* a call of model.generateContent that settled: the offset i of its batch,
\* its outcome o, and the milliseconds analyzeBatch slept after it before
\* calling again (0 when it returned instead)
LogEntry(i0, o, ms) == [i |-> i0, o |-> o, slept |-> ms]

\* one iteration of the loop from its top to the next suspension
RunBatch(r, i0) ==
  /\ i' = [i EXCEPT ![r] = i0]
  /\ dispatched' = [dispatched EXCEPT ![r] = Append(@, BatchAt(r, i0))]
  /\ UNCHANGED thrown
  /\ IF apiKey
     THEN /\ pc' = [pc EXCEPT ![r] = "awaitBatch"]
          /\ calls' = [calls EXCEPT ![r] = @ + 1]
          /\ prompted' = [prompted EXCEPT ![r] =
                            @ \cup {BatchAt(r, i0)[k].id : k \in 1..Len(BatchAt(r, i0))}]
          /\ UNCHANGED <<retryCount, analyses, db, seq, res, txn>>
     ELSE /\ UNCHANGED <<calls, prompted>>
          /\ \E results \in {NoKeyAll(BatchAt(r, i0))} : AfterBatch(r, i0, results)

\* ---------------------------------------------------------------- actions
\* the state of the server after start-up, with the requests yet to arrive
InitServer ==
  /\ apiKey \in BOOLEAN
  /\ db = <<>> /\ seq = 0
  /\ pos = [r \in Reqs |-> 0]
  /\ rowCount = [r \in Reqs |-> 0]
  /\ mentionsToAnalyze = [r \in Reqs |-> <<>>]
  /\ i = [r \in Reqs |-> 0]
  /\ retryCount = [r \in Reqs |-> 0]
  /\ analyses = [r \in Reqs |-> <<>>]
  /\ res = [r \in Reqs |-> NoResponse]
  /\ calls = [r \in Reqs |-> 0]
  /\ prompted = [r \in Reqs |-> {}]
  /\ thrown = [r \in Reqs |-> {}]
  /\ txn = [r \in Reqs |-> NoTxn]
  /\ delayed = [r \in Reqs |-> 0]
  /\ log = [r \in Reqs |-> <<>>]
  /\ dispatched = [r \in Reqs |-> <<>>]
  /\ aborted = [r \in Reqs |-> FALSE]
  /\ clock = 1
  /\ view = NoView
  /\ wiped = NeverWiped

\* app.post('/api/upload-csv'): request r arrives and its handlers are set up
StartUpload(r) ==
  /\ pc[r] = "idle"
  /\ pc' = [pc EXCEPT ![r] = "parsing"]
  /\ UNCHANGED <<store, input, readers, ingest, i, retryCount, analyses, res, calls, prompted,
                 thrown, txn, delayed, log, dispatched, aborted>>

\* rowCount++
NextRowCount(n) == n + 1

\* mutant: rows are kept whatever their content
KeepRowAlways(content) == TRUE

\* if (content)
KeepRow(content) == Truthy(content)

\* mutant: the id is built from rowCount before the increment
ZeroBasedMentionId(rc) == CsvRowId(rc - 1)

\* id: the template string csv-row-${rowCount}, after rowCount++
NewMentionId(rc) == CsvRowId(rc)

\* parser.on('data')
ParserData(r) ==
  /\ pc[r] = "parsing"
  /\ pos[r] < Len(file[r])
  /\ pos' = [pos EXCEPT ![r] = @ + 1]
  /\ rowCount' = [rowCount EXCEPT ![r] = NextRowCount(@)]
  /\ LET content == RowContent(file[r][pos[r] + 1]) IN
       mentionsToAnalyze' =
         IF KeepRow(content)
         THEN [mentionsToAnalyze EXCEPT ![r] =
                 Append(@, [id |-> NewMentionId(rowCount'[r]), content |-> content.s,
                            date |-> NormalizeDate(RawDate(dates[r][pos[r] + 1], clock)),
                            source |-> platform(r)])]
         ELSE mentionsToAnalyze
  /\ UNCHANGED <<store, input, readers, pc, i, retryCount, analyses, res, calls, prompted, thrown, txn,
                 delayed, log, dispatched, aborted>>

\* mutant: the handler logs the error and sends nothing
ParserErrorSilent(r) ==
  /\ pc[r] = "parsing"
  /\ pc' = [pc EXCEPT ![r] = "failed"]
  /\ UNCHANGED <<store, input, readers, ingest, i, retryCount, analyses, res, calls, prompted, thrown, txn,
                 delayed, log, dispatched, aborted>>

\* parser.on('error'): the stream is destroyed, no 'end' follows
ParserError(r) ==
  /\ pc[r] = "parsing"
  /\ pc' = [pc EXCEPT ![r] = "failed"]
  /\ res' = [res EXCEPT ![r] = SendError(r, HTTP_BAD_REQUEST)]
  /\ UNCHANGED <<store, input, readers, ingest, i, retryCount, analyses, calls, prompted, thrown, txn,
                 delayed, log, dispatched, aborted>>

\* mutant: the batch loop is entered whatever the number of reviews
ParserEndAlwaysBatch(r) ==
  /\ pc[r] = "parsing"
  /\ pos[r] = Len(file[r])
  /\ RunBatch(r, 0)
  /\ UNCHANGED <<input, readers, ingest, delayed, log, aborted>>

\* parser.on('end'), up to its first suspension
ParserEnd(r) ==
  /\ pc[r] = "parsing"
  /\ pos[r] = Len(file[r])
  /\ IF Len(mentionsToAnalyze[r]) = 0
     THEN /\ Finish(r, <<>>)
          /\ UNCHANGED <<i, retryCount, analyses, calls, prompted, thrown, dispatched>>
     ELSE RunBatch(r, 0)
  /\ UNCHANGED <<input, readers, ingest, delayed, log, aborted>>

\* analyzeBatch from the outcome o of model.generateContent to its next await
\* or its return
Settle(r, batch, o) ==
  /\ IF ShouldRetry(o, retryCount[r])
     THEN /\ pc' = [pc EXCEPT ![r] = "backoff"]
          /\ log' = [log EXCEPT ![r] = Append(@, LogEntry(i[r], o, BackoffMs(retryCount[r])))]
          /\ UNCHANGED <<retryCount, analyses, db, seq, res, thrown, txn>>
     ELSE /\ thrown' = [thrown EXCEPT ![r] = IF o.kind = "throw" THEN @ \cup {i[r]} ELSE @]
          /\ log' = [log EXCEPT ![r] = Append(@, LogEntry(i[r], o, 0))]
          /\ \E results \in {BatchResult(o, batch)} : AfterBatch(r, i[r], results)
  /\ UNCHANGED <<input, readers, ingest, i, calls, prompted, delayed, dispatched, aborted>>

\* model.generateContent settles, with an error or a well-formed reply
ModelReturns(r) ==
  /\ pc[r] = "awaitBatch"
  /\ \E batch \in {BatchAt(r, i[r])} : \E o \in PlainOutcomes(batch) : Settle(r, batch, o)

\* model.generateContent settles, with any reply
ModelReturnsAny(r) ==
  /\ pc[r] = "awaitBatch"
  /\ \E batch \in {BatchAt(r, i[r])} : \E o \in Outcomes(batch) : Settle(r, batch, o)

\* mutant: the retry is made with the same retryCount
BackoffElapsedSameCount(r) ==
  /\ pc[r] = "backoff"
  /\ pc' = [pc EXCEPT ![r] = "awaitBatch"]
  /\ calls' = [calls EXCEPT ![r] = @ + 1]
  /\ UNCHANGED <<store, input, readers, ingest, i, retryCount, analyses, res, prompted, thrown, txn,
                 delayed, log, dispatched, aborted>>

\* await sleep(waitTime) ends: analyzeBatch(mentions, retryCount + 1)
BackoffElapsed(r) ==
  /\ pc[r] = "backoff"
  /\ pc' = [pc EXCEPT ![r] = "awaitBatch"]
  /\ retryCount' = [retryCount EXCEPT ![r] = @ + 1]
  /\ calls' = [calls EXCEPT ![r] = @ + 1]
  /\ UNCHANGED <<store, input, readers, ingest, i, analyses, res, prompted, thrown, txn, delayed, log, dispatched, aborted>>

\* await sleep(12000) ends: i += BATCH_SIZE and the next iteration starts
DelayElapsed(r) ==
  /\ pc[r] = "delay"
  /\ RunBatch(r, i[r] + BATCH_SIZE)
  /\ delayed' = [delayed EXCEPT ![r] = @ + BATCH_DELAY_MS]
  /\ UNCHANGED <<input, readers, ingest, log, aborted>>

\* req.on('error'): the request stream fails (the client has disconnected).
\* The handler answers 500 unless a response was sent and touches nothing
\* else. While the parser still runs, either the whole body had reached it,
\* and it goes on to its 'end', or the pipe has stalled and it never ends.
RequestError(r) ==
  /\ pc[r] \in {"parsing", "awaitBatch", "backoff", "delay", "failed"}
  /\ ~aborted[r]
  /\ aborted' = [aborted EXCEPT ![r] = TRUE]
  /\ res' = [res EXCEPT ![r] = SendError(r, HTTP_SERVER_ERROR)]
  /\ \E next \in (IF pc[r] = "parsing" THEN {"parsing", "stalled"} ELSE {pc[r]}) :
       pc' = [pc EXCEPT ![r] = next]
  /\ UNCHANGED <<store, input, readers, ingest, i, retryCount, analyses, calls, prompted, thrown, txn,
                 delayed, log, dispatched>>

\* ------------------------------------------------------- query endpoints
uploads == <<ingest, pc, i, retryCount, analyses, res, calls, prompted, thrown, txn, delayed, log, dispatched, aborted>>

\* app.get('/api/data')
GetData(filter) ==
  /\ \E reviews \in SelectReviews(db, filter) :
       view' = Answer("data", filter, [reviews |-> reviews, summary |-> Summary(db)])
  /\ UNCHANGED <<store, input, clock, wiped, uploads>>

\* app.get('/api/topics')
GetTopics ==
  /\ \E topics \in SelectTopics(db) : view' = Answer("topics", Undefined, topics)
  /\ UNCHANGED <<store, input, clock, wiped, uploads>>

\* app.get('/api/trends')
GetTrends ==
  /\ view' = Answer("trends", Undefined, SelectTrends(db, clock))
  /\ UNCHANGED <<store, input, clock, wiped, uploads>>

\* mutant: the rows are deleted and the identifier sequence is kept
ClearAllKeepsSequence ==
  /\ db' = <<>> /\ UNCHANGED seq
  /\ wiped' = [done |-> TRUE, before |-> {r \in Reqs : pc[r] = "done"}, removed |-> Len(db)]
  /\ view' = Answer("clear", Undefined, HTTP_OK)
  /\ UNCHANGED <<input, clock, uploads>>

\* app.delete('/api/data'): both statements run, or the first or the second
\* throws and the catch block answers 500
ClearAll ==
  /\ \/ /\ db' = <<>> /\ seq' = 0
        /\ wiped' = [done |-> TRUE, before |-> {r \in Reqs : pc[r] = "done"},
                     removed |-> Len(db)]
        /\ view' = Answer("clear", Undefined, HTTP_OK)
     \/ /\ UNCHANGED <<db, seq, wiped>>
        /\ view' = Answer("clear", Undefined, HTTP_SERVER_ERROR)
     \/ /\ db' = <<>> /\ UNCHANGED seq
        /\ wiped' = NeverWiped
        /\ view' = Answer("clear", Undefined, HTTP_SERVER_ERROR)
  /\ UNCHANGED <<input, clock, uploads>>

\* a row of the table as an earlier run of the server has stored it
Stored(id, date, sentiment, entity, uploaded) ==
  [id |-> id, platform |-> "CSV", content |-> "v-content", date |-> date,
   sentiment |-> sentiment, entity |-> entity,
   score |-> IF sentiment = "positive" THEN 8 ELSE IF sentiment = "negative" THEN 2 ELSE DEFAULT_SCORE,
   uploaded_at |-> uploaded]

UPLOADED1 == <<"2", "0", "2", "5", "-", "1", "0", "-", "0", "1", " ", "0", "9", ":", "0", "0", ":", "0", "0">>
UPLOADED2 == <<"2", "0", "2", "5", "-", "1", "1", "-", "0", "2", " ", "1", "0", ":", "1", "5", ":", "0", "0">>

\* the table kana_insights.db holds when the server starts: empty, or the
\* rows of two earlier uploads, one review a month over eight months, or
\* two reviews of one day
StoredEight ==
  <<Stored(1, <<"2", "0", "2", "5", "-", "0", "4", "-", "2", "0">>, "positive", "Quality", UPLOADED1),
    Stored(2, <<"2", "0", "2", "5", "-", "0", "5", "-", "2", "0">>, "negative", "Service", UPLOADED1),
    Stored(3, <<"2", "0", "2", "5", "-", "0", "6", "-", "2", "0">>, "neutral", "Price", UPLOADED1),
    Stored(4, <<"2", "0", "2", "5", "-", "0", "7", "-", "2", "0">>, "positive", "Ambiance", UPLOADED1),
    Stored(5, <<"2", "0", "2", "5", "-", "0", "8", "-", "2", "0">>, "negative", "Location", UPLOADED2),
    Stored(6, <<"2", "0", "2", "5", "-", "0", "9", "-", "2", "0">>, "positive", "General", UPLOADED2),
    Stored(7, <<"2", "0", "2", "5", "-", "1", "0", "-", "2", "0">>, "negative", "Quality", UPLOADED2),
    Stored(8, <<"2", "0", "2", "5", "-", "1", "1", "-", "0", "1">>, "positive", "Service", UPLOADED2)>>

StoredPair ==
  <<Stored(1, <<"2", "0", "2", "5", "-", "1", "0", "-", "2", "0">>, "neutral", "General", UPLOADED1),
    Stored(2, <<"2", "0", "2", "5", "-", "1", "0", "-", "2", "0">>, "positive", "Quality", UPLOADED1)>>

Tables == {<<>>, StoredEight, StoredPair}

\* --------------------------------------------------------- specifications
\* Spec: one upload, of a file of up to MaxRows rows or of more than one
\* batch; the model's outcomes are drawn from PlainOutcomes
Init ==
  /\ InitServer
  /\ file \in {f \in [Reqs -> Files] : \A r \in Reqs \ {1} : f[r] = <<>>}
  /\ query \in {q \in [Reqs -> PlatformParams] : \A r \in Reqs \ {1} : q[r] = Undefined}
  /\ dates = NoDates(file)
  /\ pc = [r \in Reqs |-> IF r = 1 THEN "idle" ELSE "absent"]

Next ==
  \E r \in Reqs :
    \/ StartUpload(r)
    \/ ParserData(r)
    \/ ParserError(r)
    \/ ParserEnd(r)
    \/ ModelReturns(r)
    \/ BackoffElapsed(r)
    \/ DelayElapsed(r)

Spec == Init /\ [][Next]_vars

\* SpecTwo: MaxUploads uploads of one row each that arrive at any time and may
\* overlap, the first with a platform label; outcomes drawn from PlainOutcomes
InitTwo ==
  /\ InitServer
  /\ file = [r \in Reqs |-> <<GoodRow>>]
  /\ query = [r \in Reqs |-> IF r = 1 THEN Str("Google Review") ELSE Undefined]
  /\ dates = NoDates(file)
  /\ pc = [r \in Reqs |-> "idle"]

NextTwo ==
  \E r \in Reqs :
    \/ StartUpload(r)
    \/ ParserData(r)
    \/ ParserError(r)
    \/ ParserEnd(r)
    \/ ModelReturns(r)
    \/ BackoffElapsed(r)

SpecTwo == InitTwo /\ [][NextTwo]_vars

\* SpecClassify: one upload of at most MaxRows rows, so that the batch loop
\* has a single iteration and sleep(12000) is never reached; the model's
\* outcomes are drawn from Outcomes
InitClassify ==
  /\ InitServer
  /\ file \in {f \in [Reqs -> SmallFiles] : \A r \in Reqs \ {1} : f[r] = <<>>}
  /\ query \in {q \in [Reqs -> PlatformParams] : \A r \in Reqs \ {1} : q[r] = Undefined}
  /\ dates = NoDates(file)
  /\ pc = [r \in Reqs |-> IF r = 1 THEN "idle" ELSE "absent"]

NextClassify ==
  \E r \in Reqs :
    \/ StartUpload(r)
    \/ ParserData(r)
    \/ ParserError(r)
    \/ ParserEnd(r)
    \/ ModelReturnsAny(r)
    \/ BackoffElapsed(r)

SpecClassify == InitClassify /\ [][NextClassify]_vars

\* SpecRow: one upload of a single row with any of the content columns, with
\* no API key, so that the upload never waits for the external model
InitRow ==
  /\ InitServer
  /\ apiKey = FALSE
  /\ file \in {f \in [Reqs -> OneRowFiles \cup {<<>>}] :
                 f[1] # <<>> /\ \A r \in Reqs \ {1} : f[r] = <<>>}
  /\ query = [r \in Reqs |-> Undefined]
  /\ dates = NoDates(file)
  /\ pc = [r \in Reqs |-> IF r = 1 THEN "idle" ELSE "absent"]

NextRow ==
  \E r \in Reqs :
    \/ StartUpload(r)
    \/ ParserData(r)
    \/ ParserError(r)
    \/ ParserEnd(r)

SpecRow == InitRow /\ [][NextRow]_vars

\* the server's clock moves on
Tick ==
  /\ clock < Len(Clock)
  /\ clock' = clock + 1
  /\ UNCHANGED <<store, input, view, wiped, uploads>>

\* SpecDate: one upload of a single row with content and with any of the
\* date columns, with no API key, at any of the clock's instants
InitDate ==
  /\ InitServer
  /\ apiKey = FALSE
  /\ file = [r \in Reqs |-> IF r = 1 THEN <<GoodRow>> ELSE <<>>]
  /\ dates \in {d \in [Reqs -> {<<>>} \cup {<<c>> : c \in DateColumns}] :
                  Len(d[1]) = 1 /\ \A r \in Reqs \ {1} : d[r] = <<>>}
  /\ query = [r \in Reqs |-> Undefined]
  /\ pc = [r \in Reqs |-> IF r = 1 THEN "idle" ELSE "absent"]

NextDate ==
  \/ Tick
  \/ \E r \in Reqs :
       \/ StartUpload(r)
       \/ ParserData(r)
       \/ ParserError(r)
       \/ ParserEnd(r)

SpecDate == InitDate /\ [][NextDate]_vars

\* SpecQuery: the server starts on a table of Tables; queries and DELETE
\* requests arrive at any time, around and during one upload of two rows
\* that is made with no API key
InitQuery ==
  /\ apiKey = FALSE
  /\ db \in Tables /\ seq = Len(db)
  /\ pos = [r \in Reqs |-> 0]
  /\ rowCount = [r \in Reqs |-> 0]
  /\ mentionsToAnalyze = [r \in Reqs |-> <<>>]
  /\ i = [r \in Reqs |-> 0]
  /\ retryCount = [r \in Reqs |-> 0]
  /\ analyses = [r \in Reqs |-> <<>>]
  /\ res = [r \in Reqs |-> NoResponse]
  /\ calls = [r \in Reqs |-> 0]
  /\ prompted = [r \in Reqs |-> {}]
  /\ thrown = [r \in Reqs |-> {}]
  /\ txn = [r \in Reqs |-> NoTxn]
  /\ delayed = [r \in Reqs |-> 0]
  /\ log = [r \in Reqs |-> <<>>]
  /\ dispatched = [r \in Reqs |-> <<>>]
  /\ aborted = [r \in Reqs |-> FALSE]
  /\ clock = 1
  /\ view = NoView
  /\ wiped = NeverWiped
  /\ file = [r \in Reqs |-> IF r = 1 THEN <<GoodRow, GoodRow>> ELSE <<>>]
  /\ dates = NoDates(file)
  /\ query = [r \in Reqs |-> Undefined]
  /\ pc = [r \in Reqs |-> IF r = 1 THEN "idle" ELSE "absent"]

NextQuery ==
  \/ Tick
  \/ \E filter \in FilterParams : GetData(filter)
  \/ GetTopics
  \/ GetTrends
  \/ ClearAll
  \/ \E r \in Reqs :
       \/ StartUpload(r)
       \/ ParserData(r)
       \/ ParserEnd(r)

SpecQuery == InitQuery /\ [][NextQuery]_vars

\* SpecAbort: one upload of at most MaxRows rows whose request stream may
\* fail at any moment before the upload's end; outcomes drawn from
\* PlainOutcomes
InitAbort ==
  /\ InitServer
  /\ file \in {f \in [Reqs -> SmallFiles] : \A r \in Reqs \ {1} : f[r] = <<>>}
  /\ query = [r \in Reqs |-> Undefined]
  /\ dates = NoDates(file)
  /\ pc = [r \in Reqs |-> IF r = 1 THEN "idle" ELSE "absent"]

NextAbort ==
  \E r \in Reqs :
    \/ StartUpload(r)
    \/ ParserData(r)
    \/ ParserError(r)
    \/ ParserEnd(r)
    \/ ModelReturns(r)
    \/ BackoffElapsed(r)
    \/ RequestError(r)

SpecAbort == InitAbort /\ [][NextAbort]_vars

\* SpecLive: the upload of Spec when the request body arrives whole and is
\* parsed to its end, every call of model.generateContent settles, and
\* every timer set by sleep fires. An upload has one position (pc), at which
\* one of these steps is due; Progress is that step.
Progress(r) ==
  \/ ParserData(r)
  \/ ParserEnd(r)
  \/ ModelReturns(r)
  \/ BackoffElapsed(r)
  \/ DelayElapsed(r)

Fairness == \A r \in Reqs : WF_vars(Progress(r))

SpecLive == Init /\ [][Next]_vars /\ Fairness

\* SpecOverlap: MaxUploads uploads of two rows each that have all arrived,
\* the first with a platform label and content in column content, the others
\* without a label and with content in column text; their handlers
\* interleave in every way; outcomes drawn from PlainOutcomes
TextRow == [c \in {"text"} |-> CellText(c)]

InitOverlap ==
  /\ InitServer
  /\ file = [r \in Reqs |-> IF r = 1 THEN <<GoodRow, GoodRow>> ELSE <<TextRow, TextRow>>]
  /\ query = [r \in Reqs |-> IF r = 1 THEN Str("Google Review") ELSE Undefined]
  /\ dates = NoDates(file)
  /\ pc = [r \in Reqs |-> "parsing"]

NextOverlap ==
  \E r \in Reqs :
    \/ ParserData(r)
    \/ ParserError(r)
    \/ ParserEnd(r)
    \/ ModelReturns(r)
    \/ BackoffElapsed(r)

SpecOverlap == InitOverlap /\ [][NextOverlap]_vars

\* ------------------------------------------------------------------ claims
Range(f) == {f[x] : x \in DOMAIN f}

\* the row has a non-empty cell in one of the columns the server reads
RowHasText(row) ==
  \E c \in DOMAIN row \cap {"content", "text", "Review", "comment", "caption"} : row[c] # ""

\* results analyses holds once the batches before pc's position have returned
Covered(r) ==
  IF pc[r] \in {"delay", "done"}
  THEN Min(i[r] + BATCH_SIZE, Len(mentionsToAnalyze[r]))
  ELSE i[r]

\* C1: whatever the outcome of the external call, analyzeBatch returns as many
\* results as the batch has reviews, and every review id of the batch is the
\* mentionId of exactly one result.
C1_OneResultPerReview ==
  \A r \in Reqs :
    /\ Len(analyses[r]) = Covered(r)
    /\ \A k \in 1..Covered(r) :
         Cardinality({j \in 1..Len(analyses[r]) :
                        analyses[r][j].mentionId = mentionsToAnalyze[r][k].id}) = 1

\* a batch of two whose reply classified the first review and omitted the second
C1_Witness ==
  \E r \in Reqs :
    /\ pc[r] = "done" /\ thrown[r] = {}
    /\ Len(mentionsToAnalyze[r]) = 2 /\ Len(analyses[r]) = 2
    /\ analyses[r][1].entity = "Quality"
    /\ analyses[r][2] = Fallback(mentionsToAnalyze[r][2])

\* C2: when the external call of a batch throws on its last attempt (rate
\* limited through all retries, or any other error), the upload still answers
\* 200 with the full number of reviews, and every review of that batch is
\* stored with sentiment neutral, entity General and score 0.5 (the store
\* being reachable, and but for a review whose own insert threw).
C2_FailedBatchStoredNeutral ==
  \A r \in Reqs :
    (pc[r] = "done" /\ thrown[r] # {} /\ ~txn[r].down) =>
      /\ res[r] = Response(HTTP_OK, Len(mentionsToAnalyze[r]))
      /\ \A i0 \in thrown[r] :
           \A k \in (i0 + 1)..Min(i0 + BATCH_SIZE, Len(mentionsToAnalyze[r])) :
             k \notin txn[r].rejected =>
               \E w \in 1..Len(txn[r].rows) :
                 /\ txn[r].rows[w].idx = k
                 /\ txn[r].rows[w].row \in Range(db)
                 /\ txn[r].rows[w].row.content = mentionsToAnalyze[r][k].content
                 /\ txn[r].rows[w].row.sentiment = "neutral"
                 /\ txn[r].rows[w].row.entity = "General"
                 /\ txn[r].rows[w].row.score = DEFAULT_SCORE

\* an upload of two batches, both rate limited through all their retries,
\* all of whose rows are stored
C2_Witness ==
  \E r \in Reqs :
    /\ pc[r] = "done"
    /\ Len(mentionsToAnalyze[r]) = BATCH_SIZE + 1
    /\ thrown[r] = {0, BATCH_SIZE}
    /\ calls[r] = 2 * (MAX_RETRIES + 1)
    /\ res[r] = Response(HTTP_OK, BATCH_SIZE + 1)
    /\ Len(txn[r].rows) = BATCH_SIZE + 1

\* C3: after a parse error of the CSV stream the upload has made no
\* classification call and inserted no row, and the response it sent is a
\* failure response.
C3_ParseErrorAbortsUpload ==
  \A r \in Reqs :
    pc[r] = "failed" =>
      /\ calls[r] = 0 /\ prompted[r] = {}
      /\ txn[r] = NoTxn
      /\ res[r].status \in {HTTP_BAD_REQUEST, HTTP_SERVER_ERROR}

\* a parse error after a row with content was read
C3_Witness ==
  \E r \in Reqs :
    /\ pc[r] = "failed"
    /\ Len(mentionsToAnalyze[r]) >= 1
    /\ res[r].status = HTTP_BAD_REQUEST
    /\ db = <<>>

\* C4 (as claimed): the count in the success response is the number of rows
\* the transaction inserted.
C4_ReportsStoredCount ==
  \A r \in Reqs :
    (pc[r] = "done" /\ res[r].status = HTTP_OK) => res[r].count = Len(txn[r].rows)

\* C5 (as claimed): every score returned by analyzeBatch and every stored
\* score lies in [0.0, 1.0], that is 0..10 tenths.
C5_ScoreInUnitInterval ==
  /\ \A r \in Reqs : \A j \in 1..Len(analyses[r]) : analyses[r][j].score \in 0..10
  /\ \A d \in 1..Len(db) : db[d].score \in 0..10

\* C6 (as claimed): every entity returned by analyzeBatch and every stored
\* entity is one of the six values of the taxonomy.
C6_EntityInTaxonomy ==
  /\ \A r \in Reqs : \A j \in 1..Len(analyses[r]) : analyses[r][j].entity \in Taxonomy
  /\ \A d \in 1..Len(db) : db[d].entity \in Taxonomy

\* C7: every sentiment returned by analyzeBatch and every sentiment in the
\* reviews table, after uploads that follow or overlap one another, is one
\* of positive, neutral, negative; a value outside the three is coerced to
\* neutral (the reply element of score 1.7 is the one with sentiment "mixed").
C7_SentimentClosed ==
  /\ \A r \in Reqs : \A j \in 1..Len(analyses[r]) :
       /\ analyses[r][j].sentiment \in Sentiments
       /\ analyses[r][j].score = 17 => analyses[r][j].sentiment = "neutral"
  /\ \A d \in 1..Len(db) :
       /\ db[d].sentiment \in Sentiments
       /\ db[d].score = 17 => db[d].sentiment = "neutral"

\* two uploads have stored a row each, one classified positive and one whose
\* sentiment "mixed" was coerced
C7_Witness ==
  /\ \A r \in Reqs : pc[r] = "done"
  /\ \E d \in 1..Len(db) : db[d].score = 17 /\ db[d].sentiment = "neutral"
  /\ \E d \in 1..Len(db) : db[d].sentiment = "positive"

\* positions of the rows read so far that have content
KeptPositions(r) ==
  SelectSeq([p \in 1..pos[r] |-> p], LAMBDA p : RowHasText(file[r][p]))

\* C8 (as claimed): once the file is read, the ids are pairwise distinct, each
\* is csv-row-<k> with k in 1..N, N the number of rows with content, and
\* they follow the order of the rows.
C8_IdsWithinContentRows ==
  \A r \in Reqs :
    pos[r] = Len(file[r]) =>
      LET N == Len(KeptPositions(r)) IN
        /\ Len(mentionsToAnalyze[r]) = N
        /\ \A j \in 1..Len(mentionsToAnalyze[r]) :
             mentionsToAnalyze[r][j].id \in {CsvRowId(k) : k \in 1..N}
        /\ \A j, h \in 1..Len(mentionsToAnalyze[r]) :
             j # h => mentionsToAnalyze[r][j].id # mentionsToAnalyze[r][h].id

\* C8 (amended): the ids are pairwise distinct, and the id of a review is
\* csv-row-<k> with k the 1-based position of its row among all data rows of
\* the upload, dropped rows included; the reviews are in row order.
C8_IdsAreRowPositions ==
  \A r \in Reqs :
    /\ Len(mentionsToAnalyze[r]) = Len(KeptPositions(r))
    /\ \A j \in 1..Len(mentionsToAnalyze[r]) :
         mentionsToAnalyze[r][j].id = CsvRowId(KeptPositions(r)[j])
    /\ \A j, h \in 1..Len(mentionsToAnalyze[r]) :
         j # h => mentionsToAnalyze[r][j].id # mentionsToAnalyze[r][h].id

\* a file whose first row is dropped and whose second row is kept
C8_Witness ==
  \E r \in Reqs :
    /\ file[r] = <<EmptyRow, GoodRow>>
    /\ pos[r] = 2
    /\ Len(mentionsToAnalyze[r]) = 1
    /\ mentionsToAnalyze[r][1].id = "csv-row-2"

\* positions of the rows of the file without content
EmptyPositions(r) == {p \in 1..Len(file[r]) : ~RowHasText(file[r][p])}

\* C9: an upload of N rows of which exactly one has empty content drops that
\* row without failing: no prompt names it, the response is 200 with N-1,
\* and N-1 rows are stored (the store being reachable and accepting them).
C9_EmptyRowDropped ==
  \A r \in Reqs :
    (pc[r] = "done" /\ Cardinality(EmptyPositions(r)) = 1) =>
      LET N == Len(file[r]) IN
        /\ \A p \in EmptyPositions(r) :
             /\ CsvRowId(p) \notin prompted[r]
             /\ \A j \in 1..Len(mentionsToAnalyze[r]) : mentionsToAnalyze[r][j].id # CsvRowId(p)
        /\ apiKey => Cardinality(prompted[r]) = N - 1
        /\ ~txn[r].down => res[r] = Response(HTTP_OK, N - 1)
        /\ (~txn[r].down /\ txn[r].rejected = {}) =>
             /\ Len(txn[r].rows) = N - 1
             /\ \A w \in 1..Len(txn[r].rows) : txn[r].rows[w].row \in Range(db)

\* an upload of two rows, the first empty, that stored one row after a call
C9_Witness ==
  \E r \in Reqs :
    /\ pc[r] = "done"
    /\ file[r] = <<EmptyRow, GoodRow>>
    /\ calls[r] >= 1
    /\ res[r] = Response(HTTP_OK, 1)
    /\ Len(db) = 1

\* the first of aliases whose cell in row is non-empty, 0 when there is none
FirstFilled(row, aliases) ==
  LET filled == {k \in 1..Len(aliases) : aliases[k] \in DOMAIN row /\ row[aliases[k]] # ""} IN
    IF filled = {} THEN 0 ELSE CHOOSE k \in filled : \A h \in filled : k <= h

\* the row read yields a review whose content is that of the first filled alias
YieldsFirstOf(r, aliases) ==
  pos[r] = 1 =>
    LET k == FirstFilled(file[r][1], aliases) IN
      k # 0 =>
        /\ Len(mentionsToAnalyze[r]) = 1
        /\ mentionsToAnalyze[r][1].content = CellText(aliases[k])

\* C10 (as claimed): a row with a non-empty cell in one of the columns
\* content, text, review, comment, caption yields a review, with the content of
\* the first of them in this order that is non-empty.
C10_LowercaseReviewAlias ==
  \A r \in Reqs : YieldsFirstOf(r, <<"content", "text", "review", "comment", "caption">>)

\* C10 (amended): the same with the third column named Review, capitalised.
C10_ContentAliases ==
  \A r \in Reqs : YieldsFirstOf(r, <<"content", "text", "Review", "comment", "caption">>)

\* a row whose content cell is empty, without a text column, takes its
\* content from Review although comment is filled too
C10_Witness ==
  \E r \in Reqs :
    /\ pos[r] = 1
    /\ DOMAIN file[r][1] = {"content", "Review", "review", "comment"}
    /\ file[r][1]["content"] = "" /\ file[r][1]["comment"] # "" /\ file[r][1]["review"] # ""
    /\ Len(mentionsToAnalyze[r]) = 1
    /\ mentionsToAnalyze[r][1].content = "v-Review"

\* the text is a 10-character date YYYY-MM-DD
IsYmd(text) == Len(text) = 10 /\ MatchesDatePrefix(text)

\* C11 (as claimed): the date of every review the ingestor produces is a
\* 10-character YYYY-MM-DD text, whatever the matched date column holds.
C11_DateIsYmd ==
  \A r \in Reqs : \A k \in 1..Len(mentionsToAnalyze[r]) : IsYmd(mentionsToAnalyze[r][k].date)

\* the view is the answer to a query of the kind
Answered(kind) == view.kind = kind

\* uploads that completed after the last DELETE /api/data and inserted rows
InsertedSinceWipe == {r \in Reqs \ wiped.before : txn[r].rows # <<>>}

\* the answer to a query made on an empty table is empty or zero
EmptyAnswer ==
  CASE Answered("data") ->
         /\ view.body.reviews = <<>>
         /\ view.body.summary.total_positive = 0
         /\ view.body.summary.total_negative = 0
         /\ view.body.summary.total_neutral = 0
         /\ view.body.summary.last_updated = Null
    [] Answered("topics") -> view.body = <<>>
    [] Answered("trends") -> view.body = <<>>
    [] OTHER -> TRUE

\* C12: after a DELETE /api/data that succeeded, as long as no upload has
\* inserted since, the table is empty and its identifier sequence is reset;
\* every query answered on the empty table is empty or zero; and the rows
\* inserted afterwards are numbered from 1, however many rows were removed.
C12_ClearAllResets ==
  /\ (wiped.done /\ InsertedSinceWipe = {}) => (db = <<>> /\ seq = 0)
  /\ view.on = <<>> => EmptyAnswer
  /\ wiped.done => \A k \in 1..Len(db) : db[k].id = k

\* eight rows were removed, the topics query was then answered on the empty
\* table, and an upload has since stored rows, the first with identifier 1
C12_Witness ==
  /\ wiped.done /\ wiped.removed = 8
  /\ Answered("topics") /\ view.on = <<>> /\ view.body = <<>>
  /\ InsertedSinceWipe # {}
  /\ Len(db) >= 1 /\ db[1].id = 1

\* C13 (as claimed): the trends query returns at most 6 calendar months.
C13_AtMostSixMonths ==
  Answered("trends") => Len(view.body) <= 6

\* the entities of the rows of a table
EntitiesOf(table) == {table[k].entity : k \in 1..Len(table)}

\* the rows of a table with the entity, and with the entity and the sentiment
RowsOf(table, entity) == {k \in 1..Len(table) : table[k].entity = entity}
RowsWith(table, entity, sentiment) == {k \in RowsOf(table, entity) : table[k].sentiment = sentiment}

\* C14: the topics query returns one entry for each of at most 5 distinct
\* entities of the table, with the entity's total and its positive, neutral
\* and negative counts, which sum to the total; the entries are in
\* descending order of total, and no entity left out has a larger total
\* than one returned.
C14_TopicsTopFive ==
  Answered("topics") =>
    LET T == view.on
        B == view.body
        n == Cardinality(EntitiesOf(T))
    IN /\ Len(B) = IF n < 5 THEN n ELSE 5
       /\ \A j \in 1..Len(B) :
            /\ B[j].entity \in EntitiesOf(T)
            /\ B[j].total = Cardinality(RowsOf(T, B[j].entity))
            /\ B[j].positive = Cardinality(RowsWith(T, B[j].entity, "positive"))
            /\ B[j].neutral = Cardinality(RowsWith(T, B[j].entity, "neutral"))
            /\ B[j].negative = Cardinality(RowsWith(T, B[j].entity, "negative"))
            /\ B[j].positive + B[j].neutral + B[j].negative = B[j].total
       /\ \A j, h \in 1..Len(B) :
            /\ j # h => B[j].entity # B[h].entity
            /\ j < h => B[j].total >= B[h].total
       /\ \A e \in EntitiesOf(T) \ {B[j].entity : j \in 1..Len(B)} :
            \A j \in 1..Len(B) : Cardinality(RowsOf(T, e)) <= B[j].total

\* the topics of a table of six entities: five are returned, the first with
\* a total of 2, the last with a total of 1
C14_Witness ==
  /\ Answered("topics")
  /\ Cardinality(EntitiesOf(view.on)) = 6
  /\ Len(view.body) = 5
  /\ view.body[1].total = 2 /\ view.body[5].total = 1

\* C15: the review listing returns the rows of the table, each once, in
\* descending order of date; with a filter naming one of the three
\* sentiments it returns exactly the rows of that sentiment; the summary
\* returned with it counts all rows of the table whatever the filter.
C15_ListingFiltered ==
  Answered("data") =>
    LET T == view.on
        L == view.body.reviews
        wanted == IF view.filter.t = "string" /\ view.filter.s \in Sentiments
                  THEN {k \in 1..Len(T) : T[k].sentiment = view.filter.s}
                  ELSE 1..Len(T)
    IN /\ (view.filter = Undefined \/ view.filter.s \in Sentiments) =>
            /\ Len(L) = Cardinality(wanted)
            /\ {L[j] : j \in 1..Len(L)} = {T[k] : k \in wanted}
       /\ \A j, h \in 1..Len(L) : j < h => ~TextLess(L[j].date, L[h].date)
       /\ view.body.summary.total_positive + view.body.summary.total_negative
            + view.body.summary.total_neutral = Len(T)

\* the listing of the negative rows of the table of eight rows: three rows,
\* the latest first, with a summary that counts the four positive rows
C15_Witness ==
  /\ Answered("data") /\ view.filter = Str("negative")
  /\ view.on = StoredEight
  /\ Len(view.body.reviews) = 3
  /\ view.body.reviews[1].id = 7 /\ view.body.reviews[3].id = 2
  /\ view.body.summary.total_positive = 4

\* C16: the summary gives for each sentiment the number of rows of the table
\* with it, the three numbers sum to the number of rows (of the table, in
\* every state), and last_updated is the latest uploaded_at of the rows, as
\* date and time of day, and NULL when the table is empty.
C16_SummaryCounts ==
  /\ Cardinality({k \in 1..Len(db) : db[k].sentiment \in {"positive", "negative", "neutral"}})
       = Len(db)
  /\ Answered("data") =>
       LET T == view.on
           S == view.body.summary
       IN /\ S.total_positive = Cardinality({k \in 1..Len(T) : T[k].sentiment = "positive"})
          /\ S.total_negative = Cardinality({k \in 1..Len(T) : T[k].sentiment = "negative"})
          /\ S.total_neutral = Cardinality({k \in 1..Len(T) : T[k].sentiment = "neutral"})
          /\ S.total_positive + S.total_negative + S.total_neutral = Len(T)
          /\ S.last_updated.null <=> T = <<>>
          /\ T # <<>> =>
               \E k \in 1..Len(T) :
                 /\ \A h \in 1..Len(T) : ~TextLess(T[k].uploaded_at, T[h].uploaded_at)
                 /\ SubSeq(S.last_updated.text, 1, 10) = SubSeq(T[k].uploaded_at, 1, 10)
                 /\ SubSeq(S.last_updated.text, 12, 19) = SubSeq(T[k].uploaded_at, 12, 19)

\* the summary of the table of eight rows after an upload added two at the
\* second instant of the clock: last_updated is that instant
C16_Witness ==
  /\ Answered("data")
  /\ Len(view.on) = 10
  /\ view.body.summary.total_neutral = 3
  /\ view.body.summary.last_updated = Text(<<"2", "0", "2", "5", "-", "1", "1", "-", "2", "5", "T", "1", "7", ":", "4", "5", ":", "1", "0", "Z">>)

\* C17: whatever the interleaving of queries, DELETE requests and the
\* upload, the table a query is answered on holds either none or all of the
\* rows the transaction of an upload inserted.
C17_QueriesSeeWholeUploads ==
  \A r \in Reqs :
    LET mine == {txn[r].rows[k].row : k \in 1..Len(txn[r].rows)}
        seen == mine \cap Range(view.on)
    IN seen = {} \/ seen = mine

\* the listing answered after the upload has the two rows the upload
\* inserted, after the eight that were there
C17_Witness ==
  \E r \in Reqs :
    /\ pc[r] = "done" /\ Len(txn[r].rows) = 2
    /\ Answered("data") /\ Len(view.on) = 10
    /\ \A k \in 1..2 : txn[r].rows[k].row \in Range(view.on)

\* C18: without an API key no call to the external model is made or awaited,
\* every result is neutral and General, and a completed upload has answered
\* 200 with the number of its reviews and stored each of them as neutral and
\* General (the store being reachable, and but for a review whose own insert
\* threw).
C18_NoKeyStoresNeutral ==
  ~apiKey =>
    \A r \in Reqs :
      /\ calls[r] = 0 /\ prompted[r] = {}
      /\ pc[r] \notin {"awaitBatch", "backoff"}
      /\ \A j \in 1..Len(analyses[r]) :
           analyses[r][j].sentiment = "neutral" /\ analyses[r][j].entity = "General"
      /\ (pc[r] = "done" /\ ~txn[r].down) =>
           /\ res[r] = Response(HTTP_OK, Len(mentionsToAnalyze[r]))
           /\ Len(txn[r].rows) = Len(mentionsToAnalyze[r]) - Cardinality(txn[r].rejected)
           /\ \A w \in 1..Len(txn[r].rows) :
                /\ txn[r].rows[w].row \in Range(db)
                /\ txn[r].rows[w].row.content = mentionsToAnalyze[r][txn[r].rows[w].idx].content
                /\ txn[r].rows[w].row.sentiment = "neutral"
                /\ txn[r].rows[w].row.entity = "General"

\* an upload of more than one batch made without a key, all rows stored
C18_Witness ==
  \E r \in Reqs :
    /\ ~apiKey /\ pc[r] = "done"
    /\ Len(mentionsToAnalyze[r]) = BATCH_SIZE + 1
    /\ Len(db) = BATCH_SIZE + 1
    /\ res[r] = Response(HTTP_OK, BATCH_SIZE + 1)
    /\ calls[r] = 0

\* C19: an upload that yields no review makes no call to the external model,
\* never waits between batches, stores nothing, and answers 200 with a count
\* of zero (the store being reachable).
C19_EmptyUploadSucceeds ==
  \A r \in Reqs :
    (pc[r] \notin {"absent", "idle", "failed"} /\ pos[r] = Len(file[r])
       /\ mentionsToAnalyze[r] = <<>>) =>
      /\ calls[r] = 0 /\ prompted[r] = {} /\ delayed[r] = 0
      /\ pc[r] \in {"parsing", "done"}
      /\ pc[r] = "done" =>
           /\ txn[r].rows = <<>> /\ db = <<>>
           /\ ~txn[r].down => res[r] = Response(HTTP_OK, 0)

\* an upload of two rows, both dropped, with a key configured, has answered
\* 200 with a count of zero
C19_Witness ==
  \E r \in Reqs :
    /\ apiKey /\ pc[r] = "done"
    /\ Len(file[r]) = 2 /\ mentionsToAnalyze[r] = <<>>
    /\ res[r] = Response(HTTP_OK, 0)
    /\ calls[r] = 0

\* batches of the upload before the one at offset i
BatchesBefore(r) == i[r] \div BATCH_SIZE

\* C20: while a batch is with the classifier (in a call or between two
\* retries), or the upload sleeps between two batches, the results of all
\* batches before it, and of no other, are in; a batch after the first is
\* dispatched only when 12 seconds of sleep have passed for each batch
\* before it; the upload sleeps only when a further batch follows; and a
\* completed upload has classified every review and slept 12 seconds
\* between its batches, not after the last.
C20_BatchesSequential ==
  \A r \in Reqs :
    /\ pc[r] \in {"awaitBatch", "backoff"} =>
         /\ Len(analyses[r]) = i[r]
         /\ delayed[r] = BATCH_DELAY_MS * BatchesBefore(r)
    /\ pc[r] = "delay" =>
         /\ Len(analyses[r]) = i[r] + BATCH_SIZE
         /\ i[r] + BATCH_SIZE < Len(mentionsToAnalyze[r])
         /\ delayed[r] = BATCH_DELAY_MS * BatchesBefore(r)
    /\ (pc[r] = "done" /\ mentionsToAnalyze[r] # <<>>) =>
         /\ Len(analyses[r]) = Len(mentionsToAnalyze[r])
         /\ delayed[r] = BATCH_DELAY_MS * ((Len(mentionsToAnalyze[r]) - 1) \div BATCH_SIZE)
         /\ apiKey => calls[r] >= ((Len(mentionsToAnalyze[r]) - 1) \div BATCH_SIZE) + 1

\* the second batch of an upload is with the classifier, after a first batch
\* that was retried, and after one sleep of 12 seconds
C20_Witness ==
  \E r \in Reqs :
    /\ pc[r] = "awaitBatch" /\ i[r] = BATCH_SIZE
    /\ calls[r] >= 3
    /\ Len(analyses[r]) = BATCH_SIZE
    /\ delayed[r] = 12000

\* the calls of model.generateContent that settled for the batch at offset i0
CallsOf(r, i0) == SelectSeq(log[r], LAMBDA e : e.i = i0)

\* the offsets of the batches the loop has dispatched
Offsets(r) == {BATCH_SIZE * (b - 1) : b \in 1..Len(dispatched[r])}

RateLimited(o) == o.kind = "throw" /\ o.status = RATE_LIMIT_STATUS

\* C21: a call that fails with status 429 is followed by a wait of 15, 30
\* or 60 seconds (for the first, second and third such failure of a batch)
\* and then by another call for the same batch; a fourth 429, and an
\* outcome of any other kind, is followed by no wait and no further call for
\* the batch, so that a batch has at most 4 calls; the waits of every batch
\* start again at 15 seconds.
C21_RetryPolicy ==
  \A r \in Reqs :
    /\ calls[r] <= (MAX_RETRIES + 1) * Len(dispatched[r])
    /\ pc[r] = "backoff" => retryCount[r] < MAX_RETRIES
    /\ \A i0 \in Offsets(r) :
         LET c == CallsOf(r, i0) IN
           /\ Len(c) <= MAX_RETRIES + 1
           /\ \A k \in 1..Len(c) :
                c[k].slept = IF RateLimited(c[k].o) /\ k <= MAX_RETRIES
                             THEN <<15000, 30000, 60000>>[k] ELSE 0
    /\ \A k \in 1..(Len(log[r]) - 1) :
         /\ log[r][k].slept > 0 => log[r][k + 1].i = log[r][k].i
         /\ log[r][k].slept = 0 => log[r][k + 1].i = log[r][k].i + BATCH_SIZE
    /\ \A k \in 1..Len(log[r]) :
         (k = Len(log[r]) /\ log[r][k].slept > 0) =>
           /\ pc[r] \in {"backoff", "awaitBatch"} /\ i[r] = log[r][k].i
           /\ calls[r] = Len(log[r]) + (IF pc[r] = "awaitBatch" THEN 1 ELSE 0)

\* the first batch of an upload had four calls, after waits of 15, 30 and 60
\* seconds, and the first call for the second batch failed with 429 and was
\* followed by a wait of 15 seconds
C21_Witness ==
  \E r \in Reqs :
    /\ Len(CallsOf(r, 0)) = 4
    /\ \A k \in 1..4 : RateLimited(CallsOf(r, 0)[k].o)
    /\ [k \in 1..3 |-> CallsOf(r, 0)[k].slept] = <<15000, 30000, 60000>>
    /\ Len(CallsOf(r, BATCH_SIZE)) >= 1
    /\ CallsOf(r, BATCH_SIZE)[1].slept = 15000

\* the concatenation of a sequence of sequences
RECURSIVE Concat(_)
Concat(ss) == IF ss = <<>> THEN <<>> ELSE Concat(SubSeq(ss, 1, Len(ss) - 1)) \o ss[Len(ss)]

\* C22: the batches dispatched so far are not empty, have 15 reviews each
\* except possibly the last, and put end to end are the first reviews of the
\* upload in the ingestor's order, so that no review is in two batches; the
\* classification results gathered so far are, position by position, for the
\* reviews in the ingestor's order; and when the upload has completed, every
\* review was in a batch, only the last batch has fewer than 15 reviews, and
\* the rows appended to the table are in increasing id for increasing
\* position in the ingestor's order, each built from the review at that
\* position.
C22_BatchesPartitionInOrder ==
  \A r \in Reqs :
    LET ms == mentionsToAnalyze[r]
        ds == dispatched[r]
        all == Concat(ds)
    IN
      /\ \A b \in 1..Len(ds) :
           /\ ds[b] # <<>>
           /\ Len(ds[b]) <= BATCH_SIZE
           /\ b < Len(ds) => Len(ds[b]) = BATCH_SIZE
      /\ Len(all) <= Len(ms) /\ all = SubSeq(ms, 1, Len(all))
      /\ Len(analyses[r]) <= Len(all)
      /\ \A k \in 1..Len(analyses[r]) : analyses[r][k].mentionId = ms[k].id
      /\ (pc[r] = "done" /\ ms # <<>>) =>
           /\ all = ms
           /\ Len(ds) = (Len(ms) + BATCH_SIZE - 1) \div BATCH_SIZE
           /\ Len(analyses[r]) = Len(ms)
           /\ LET rows == txn[r].rows IN
                /\ \A k \in 1..Len(rows) :
                     /\ rows[k].idx \in 1..Len(ms)
                     /\ rows[k].row.content = ms[rows[k].idx].content
                     /\ rows[k].row.date = ms[rows[k].idx].date
                     /\ rows[k].row.sentiment = analyses[r][rows[k].idx].sentiment
                /\ \A k \in 1..(Len(rows) - 1) :
                     /\ rows[k].idx < rows[k + 1].idx
                     /\ rows[k].row.id < rows[k + 1].row.id

\* an upload of 16 reviews has completed in two batches, of 15 and of 1, and
\* has appended 16 rows
C22_Witness ==
  \E r \in Reqs :
    /\ pc[r] = "done"
    /\ Len(mentionsToAnalyze[r]) = BATCH_SIZE + 1
    /\ Len(dispatched[r]) = 2
    /\ Len(dispatched[r][1]) = BATCH_SIZE /\ Len(dispatched[r][2]) = 1
    /\ Len(txn[r].rows) = BATCH_SIZE + 1
    /\ Len(db) = BATCH_SIZE + 1

\* the outcome of the last call of model.generateContent that settled
LastOutcome(r) == log[r][Len(log[r])].o

\* the reply's array has an element, not null, whose mentionId is id
HasMatch(arr, id) == \E j \in 1..Len(arr) : ~arr[j].isNull /\ arr[j].mentionId = Str(id)

\* C23: when the reply of the call that ended an upload's only batch parsed
\* as an array, every review with a matching element has that element's
\* coerced values as its result, and every review without one has the
\* default result, whatever else the array holds.
C23_ReconciledPerElement ==
  \A r \in Reqs :
    (pc[r] = "done" /\ log[r] # <<>> /\ LastOutcome(r).kind = "text"
       /\ ParsesAsArray(LastOutcome(r))) =>
      \A k \in 1..Len(mentionsToAnalyze[r]) :
        LET m == mentionsToAnalyze[r][k]
            arr == LastOutcome(r).arr
        IN IF HasMatch(arr, m.id)
           THEN analyses[r][k] = ReconcileOne(arr, m)
           ELSE analyses[r][k] = Fallback(m)

\* the reply is a text whose JSON body, with or without Markdown fences
\* around it, is not valid JSON or is a value other than an array
Unparsed(o) == o.kind = "text" /\ o.json \in {"invalid", "object"}

\* C24: a call whose reply text is not JSON, or is JSON but not an array, is
\* followed by no wait and no further call; the upload goes on to its end
\* with one default result (neutral, 0.5, General) for every review of the
\* batch, and answers 200 unless the store is unavailable.
C24_UnparsedReplyGivesDefaults ==
  \A r \in Reqs :
    \A k \in 1..Len(log[r]) :
      Unparsed(log[r][k].o) =>
        /\ log[r][k].slept = 0
        /\ k = Len(log[r])
        /\ calls[r] = Len(log[r])
        /\ pc[r] = "done"
        /\ analyses[r] = [j \in 1..Len(mentionsToAnalyze[r]) |->
                            [mentionId |-> mentionsToAnalyze[r][j].id, sentiment |-> "neutral",
                             score |-> DEFAULT_SCORE, entity |-> "General"]]
        /\ ~txn[r].down => res[r] = Response(HTTP_OK, Len(mentionsToAnalyze[r]))

\* an upload of two reviews has completed after a reply inside Markdown
\* fences whose body was not an array, and its two rows are stored as neutral
C24_Witness ==
  \E r \in Reqs :
    /\ pc[r] = "done" /\ Len(mentionsToAnalyze[r]) = 2
    /\ log[r] # <<>> /\ Unparsed(LastOutcome(r))
    /\ LastOutcome(r).text = <<FENCE_JSON, BODY, FENCE>>
    /\ LastOutcome(r).json = "object"
    /\ Len(txn[r].rows) = 2
    /\ \A k \in 1..2 : txn[r].rows[k].row.sentiment = "neutral"
    /\ res[r].status = HTTP_OK

\* the positions of reviewsToStore whose rows the upload appended
StoredPositions(r) == {txn[r].rows[k].idx : k \in 1..Len(txn[r].rows)}

\* C25: when an upload has completed and db.prepare and the transaction did
\* not throw, the rows appended are those of the reviews whose insert did
\* not throw, one each, before and after a review whose insert threw; they
\* are in the table, and the response is 200.
C25_FailedRowIsSkipped ==
  \A r \in Reqs :
    (pc[r] = "done" /\ ~txn[r].down) =>
      LET n == Len(mentionsToAnalyze[r]) IN
        /\ StoredPositions(r) = (1..n) \ txn[r].rejected
        /\ Len(txn[r].rows) = n - Cardinality(txn[r].rejected)
        /\ \A k \in 1..Len(txn[r].rows) :
             \E j \in 1..Len(db) : db[j] = txn[r].rows[k].row
        /\ res[r].status = HTTP_OK

\* an upload of 16 reviews has completed; the insert of its second review
\* threw, and the 15 others are in the table, one before and 14 after it
C25_Witness ==
  \E r \in Reqs :
    /\ pc[r] = "done" /\ ~txn[r].down
    /\ Len(mentionsToAnalyze[r]) = BATCH_SIZE + 1
    /\ txn[r].rejected = {2}
    /\ StoredPositions(r) = {1} \cup (3..(BATCH_SIZE + 1))
    /\ Len(db) = BATCH_SIZE
    /\ res[r].status = HTTP_OK

\* the store was unavailable when the upload wrote to it: db.prepare or the
\* transaction threw, or insert.run threw for every one of several reviews
StoreUnavailable(r) ==
  \/ txn[r].down
  \/ /\ Len(mentionsToAnalyze[r]) >= 2
     /\ txn[r].rejected = 1..Len(mentionsToAnalyze[r])

\* C26: an upload that has completed while the store was unavailable has
\* answered with status 500, never with 200.
C26_UnavailableStoreFailsUpload ==
  \A r \in Reqs :
    (pc[r] = "done" /\ StoreUnavailable(r)) => res[r].status = HTTP_SERVER_ERROR

\* C27: an upload whose request stream has reported an error has appended
\* no row to the table.
C27_AbortedUploadStoresNothing ==
  \A r \in Reqs : aborted[r] => txn[r].rows = <<>>

\* C28: a response, once sent, is the request's response for good: no
\* handler sends another, so none replaces an error by a success.
C28_AtMostOneResponse ==
  [][\A r \in Reqs : res[r] # NoResponse => res'[r] = res[r]]_vars

\* the request stream failed while a batch was with the model and the
\* handler answered 500; the 'end' handler then ran to its end, stored the
\* rows and reached res.status(200), and the response is still the 500
C28_Witness ==
  \E r \in Reqs :
    /\ aborted[r] /\ pc[r] = "done"
    /\ log[r] # <<>>
    /\ txn[r].rows # <<>>
    /\ res[r] = Response(HTTP_SERVER_ERROR, 0)

\* the number of batches of n reviews
BatchCount(n) == (n + BATCH_SIZE - 1) \div BATCH_SIZE

\* C29: an upload never makes more than 4 calls of the model for each batch
\* of its reviews, and an upload whose body is being parsed is eventually
\* answered, whatever the model's outcomes are.
C29_BoundedCallsAndResponse ==
  /\ [](\A r \in Reqs :
          calls[r] <= (MAX_RETRIES + 1) * BatchCount(Len(mentionsToAnalyze[r])))
  /\ \A r \in Reqs : (pc[r] = "parsing") ~> (pc[r] \in {"done", "failed"} /\ res[r] # NoResponse)

\* an upload of 16 reviews was answered after 8 calls of the model, every
\* call but the last of each batch having failed with status 429
C29_Witness ==
  \E r \in Reqs :
    /\ pc[r] = "done" /\ res[r] # NoResponse
    /\ Len(mentionsToAnalyze[r]) = BATCH_SIZE + 1
    /\ calls[r] = 2 * (MAX_RETRIES + 1)
    /\ Len(log[r]) = calls[r]
    /\ RateLimited(log[r][MAX_RETRIES + 1].o)

\* the rows of the table that upload r appended
OwnRows(r) == [k \in 1..Len(txn[r].rows) |-> txn[r].rows[k].row]

\* C30: of the uploads in flight together, each that has completed with the
\* store available has appended rows for its own reviews only: they carry
\* its platform label, its reviews' content, and the results of its own
\* batch, which come from the outcome of its own last call of the model;
\* their ids are consecutive; they are in the table; and when both have
\* completed the table holds the rows of each of them, once, and no other.
C30_UploadsAreIndependent ==
  /\ \A r \in Reqs :
       (pc[r] = "done" /\ ~txn[r].down) =>
         /\ apiKey => analyses[r] = BatchResult(LastOutcome(r), mentionsToAnalyze[r])
         /\ \A k \in 1..Len(txn[r].rows) :
              LET row == txn[r].rows[k].row
                  idx == txn[r].rows[k].idx
              IN /\ row.platform = (IF r = 1 THEN "Google Review" ELSE "CSV")
                 /\ row.content = (IF r = 1 THEN "v-content" ELSE "v-text")
                 /\ row.sentiment = analyses[r][idx].sentiment
                 /\ row.entity = analyses[r][idx].entity
                 /\ row.score = analyses[r][idx].score
                 /\ \E j \in 1..Len(db) : db[j] = row
         /\ \A k \in 1..(Len(txn[r].rows) - 1) :
              txn[r].rows[k + 1].row.id = txn[r].rows[k].row.id + 1
  /\ (\A r \in Reqs : pc[r] = "done" /\ ~txn[r].down) =>
       /\ Range(db) = UNION {Range(OwnRows(r)) : r \in Reqs}
       /\ Cardinality(Range(db)) = Len(db)
       /\ \A r \in Reqs : Cardinality(Range(OwnRows(r))) = Len(txn[r].rows)
       /\ \A r, q \in Reqs : r # q => Range(OwnRows(r)) \cap Range(OwnRows(q)) = {}

\* both uploads have completed after overlapping: the second stored its two
\* rows first, as neutral after an error of the model, and the first stored
\* its two rows after a retry, the first of them as positive
C30_Witness ==
  /\ \A r \in {1, 2} : pc[r] = "done" /\ Len(txn[r].rows) = 2
  /\ OwnRows(2)[1].id = 1 /\ OwnRows(2)[2].id = 2
  /\ OwnRows(1)[1].id = 3 /\ OwnRows(1)[2].id = 4
  /\ Len(log[1]) = 2 /\ RateLimited(log[1][1].o)
  /\ OwnRows(1)[1].sentiment = "positive" /\ OwnRows(1)[1].platform = "Google Review"
  /\ OwnRows(2)[1].sentiment = "neutral" /\ OwnRows(2)[1].platform = "CSV"
  /\ Len(db) = 4

====
